---- MODULE Spec2Model ----
(***************************************************************************)
(* A model of RAGApp.py: the Tkinter controller RAGApplication, its        *)
(* background upload thread and the helpers it calls.                      *)
(*                                                                         *)
(* Text (model names, queries, file names, paths, command output) is a     *)
(* sequence of one-character strings, so that strip, split, startswith,    *)
(* lower and endswith are computed character by character as Python does.  *)
(*                                                                         *)
(* The main thread runs one Tk callback at a time (mainPc = "idle" between *)
(* callbacks); agent.start runs inside the callback, so the main thread    *)
(* stays in "chat_start" / "rag_start" until the call returns or raises.   *)
(* Upload threads run concurrently with the main thread.                   *)
(***************************************************************************)
EXTENDS Integers, Sequences, FiniteSets, TLC

\* ------------------------------------------------------------------------
\* Bounds of the model
\* ------------------------------------------------------------------------
\* accepted upload requests (threads spawned) explored per behaviour
MaxUploads == 2

\* ------------------------------------------------------------------------
\* Text helpers (Python str methods)
\* ------------------------------------------------------------------------
EmptyStr == <<>>

\* str.isspace for the characters used here
IsSpace(c) == c \in {" ", "\t", "\n", "\r"}

\* str.startswith
StartsWith(s, p) == Len(s) >= Len(p) /\ SubSeq(s, 1, Len(p)) = p

\* str.endswith
EndsWith(s, p) == Len(s) >= Len(p) /\ SubSeq(s, Len(s) - Len(p) + 1, Len(s)) = p

RECURSIVE LStrip(_)
LStrip(s) == IF s # <<>> /\ IsSpace(Head(s)) THEN LStrip(Tail(s)) ELSE s

RECURSIVE RStrip(_)
RStrip(s) ==
    IF s # <<>> /\ IsSpace(s[Len(s)]) THEN RStrip(SubSeq(s, 1, Len(s) - 1)) ELSE s

\* str.strip()
Strip(s) == RStrip(LStrip(s))

\* str.split("\n"): the pieces between newlines, empty pieces kept
RECURSIVE SplitLines(_, _)
SplitLines(s, cur) ==
    IF s = <<>> THEN <<cur>>
    ELSE IF Head(s) = "\n" THEN <<cur>> \o SplitLines(Tail(s), <<>>)
    ELSE SplitLines(Tail(s), Append(cur, Head(s)))

\* the leading run of non-space characters
RECURSIVE TakeToken(_)
TakeToken(s) ==
    IF s = <<>> \/ IsSpace(Head(s)) THEN <<>>
    ELSE <<Head(s)>> \o TakeToken(Tail(s))

\* the first token taken without skipping the line's leading whitespace
FirstToken_nolstrip(line) == TakeToken(line)

\* line.split(None, 3)[0] for a line that is not all whitespace
FirstToken(line) == TakeToken(LStrip(line))

\* str.lower for the letters used in file names
LowerChar(c) ==
    CASE c = "P" -> "p" [] c = "D" -> "d" [] c = "F" -> "f"
      [] c = "M" -> "m" [] c = "T" -> "t" [] c = "X" -> "x"
      [] c = "A" -> "a" [] c = "B" -> "b" [] c = "E" -> "e"
      [] OTHER -> c

Lower(s) == [i \in 1..Len(s) |-> LowerChar(s[i])]

\* x in list
InList(x, list) == \E i \in 1..Len(list) : list[i] = x

\* ------------------------------------------------------------------------
\* Literals
\* ------------------------------------------------------------------------
\* "ollama/"
OllamaPrefix == <<"o", "l", "l", "a", "m", "a", "/">>

\* "mistral:latest", the fallback of get_ollama_models
FallbackModel ==
    <<"m", "i", "s", "t", "r", "a", "l", ":", "l", "a", "t", "e", "s", "t">>

\* "NAME", the first word of the header printed by `ollama list`
HeaderWord == <<"N", "A", "M", "E">>

\* "No response from the model."
NoResponse ==
    <<"N", "o", " ", "r", "e", "s", "p", "o", "n", "s", "e", " ", "f", "r", "o", "m",
      " ", "t", "h", "e", " ", "m", "o", "d", "e", "l", ".">>

\* Python None (an unset agent reference, a start() that returns nothing)
None == [none |-> TRUE]

\* ------------------------------------------------------------------------
\* get_ollama_models
\* ------------------------------------------------------------------------
\* the non-blank lines' first tokens, in order
RECURSIVE ParseRows(_)
ParseRows(lines) ==
    IF lines = <<>> THEN <<>>
    ELSE IF Strip(Head(lines)) = <<>> THEN ParseRows(Tail(lines))
    ELSE <<FirstToken(Head(lines))>> \o ParseRows(Tail(lines))

\* get_ollama_models without the removal of the header line
get_ollama_models_keepheader(run) ==
    IF run.kind = "ok"
    THEN ParseRows(SplitLines(Strip(run.output), <<>>))
    ELSE <<FallbackModel>>

\* run: what subprocess.check_output did: [kind |-> "ok", output |-> text] on exit
\* status 0, [kind |-> "missing"] when the executable is absent (FileNotFoundError),
\* [kind |-> "nonzero"] on another exit status (CalledProcessError)
get_ollama_models(run) ==
    IF run.kind = "ok"
    THEN LET lines == SplitLines(Strip(run.output), <<>>)
             rows  == IF lines # <<>> /\ StartsWith(lines[1], HeaderWord)
                      THEN Tail(lines) ELSE lines
         IN  ParseRows(rows)
    ELSE <<FallbackModel>>

\* ------------------------------------------------------------------------
\* The file system seen by os.walk, and scan_supported_files
\* ------------------------------------------------------------------------
\* os.path.join(a, b) on POSIX
Join(a, b) ==
    IF StartsWith(b, <<"/">>) THEN b
    ELSE IF a = <<>> \/ EndsWith(a, <<"/">>) THEN a \o b
    ELSE a \o <<"/">> \o b

\* a few directories: path -> its file names and sub-directory names, in
\* listing order
SampleDirs ==
    (<<"/", "d">> :>
        [files |-> << <<"a", ".", "p", "d", "f">>, <<"e", ".", "e", "x", "e">> >>,
         dirs  |-> << <<"s">> >>])
 @@ (<<"/", "d", "/", "s">> :>
        [files |-> << <<"b", ".", "P", "D", "F">> >>, dirs |-> <<>>])
 @@ (<<"/", "n">> :>
        [files |-> << <<"c", ".", "m", "d">> >>, dirs |-> <<>>])
 @@ (<<"/", "x">> :>
        [files |-> << <<"e", ".", "e", "x", "e">> >>, dirs |-> <<>>])

\* most files the top directory of a generated tree holds
MaxFiles == 2

\* names of the files in generated trees:
\* a.pdf, b.PDF, c.md, d.txt, e.exe, pdf, .txt
FileNames ==
    { <<"a", ".", "p", "d", "f">>, <<"b", ".", "P", "D", "F">>, <<"c", ".", "m", "d">>,
      <<"d", ".", "t", "x", "t">>, <<"e", ".", "e", "x", "e">>, <<"p", "d", "f">>,
      <<".", "t", "x", "t">> }

\* the listings of at most n files with distinct names
FileSeqs(n) ==
    UNION { {fs \in [1..k -> FileNames] : \A i, j \in 1..k : i # j => fs[i] # fs[j]} :
            k \in 0..n }

\* what lies below the top directory of a generated tree: nothing, or a chain
\* of directories named "s", one inside the other, given by their listings:
\* an empty s; s with b.PDF; s with e.exe and in it s with d.txt and c.md
SubChains ==
    { <<>>,
      << <<>> >>,
      << << <<"b", ".", "P", "D", "F">> >> >>,
      << << <<"e", ".", "e", "x", "e">> >>,
         << <<"d", ".", "t", "x", "t">>, <<"c", ".", "m", "d">> >> >> }

\* generated directory trees
GenTrees == { [files |-> fs, chain |-> ch] : fs \in FileSeqs(MaxFiles), ch \in SubChains }

\* a listing written as a directory name: its names joined by "+", "0" if none
RECURSIVE Code(_)
Code(fs) ==
    IF fs = <<>> THEN <<"0">>
    ELSE IF Len(fs) = 1 THEN fs[1]
    ELSE Head(fs) \o <<"+">> \o Code(Tail(fs))

RECURSIVE ChainCode(_)
ChainCode(ch) ==
    IF ch = <<>> THEN <<>> ELSE <<"~">> \o Code(Head(ch)) \o ChainCode(Tail(ch))

\* a generated tree is found under /t, in a directory named after its content
TreePath(T) == <<"/", "t", "/">> \o Code(T.files) \o ChainCode(T.chain)

\* the directories of the generated trees: the top of a tree (depth 0) and
\* the directories of its chain
GenDirs == UNION { {[tree |-> T, depth |-> k] : k \in 0..Len(T.chain)} : T \in GenTrees }

RECURSIVE DirPath(_)
DirPath(g) ==
    IF g.depth = 0 THEN TreePath(g.tree)
    ELSE Join(DirPath([g EXCEPT !.depth = g.depth - 1]), <<"s">>)

\* the pieces of s between occurrences of the character sep
RECURSIVE SplitOn(_, _, _)
SplitOn(s, sep, cur) ==
    IF s = <<>> THEN <<cur>>
    ELSE IF Head(s) = sep THEN <<cur>> \o SplitOn(Tail(s), sep, <<>>)
    ELSE SplitOn(Tail(s), sep, Append(cur, Head(s)))

\* the listing a directory name stands for
Decode(code) == IF code = <<"0">> THEN <<>> ELSE SplitOn(code, "+", <<>>)

\* the file names and sub-directory names of the generated directory at path
\* p = /t/<top>~<chain 1>~...~<chain n>[/s]*, read off the path
DirListing(p) ==
    LET parts == SplitOn(p, "/", <<>>)
        codes == SplitOn(parts[3], "~", <<>>)
        depth == Len(parts) - 3
    IN  [files |-> Decode(codes[depth + 1]),
         dirs  |-> IF depth + 1 < Len(codes) THEN << <<"s">> >> ELSE <<>>]

\* the file system seen by os.walk: directory path -> its file names and
\* sub-directory names, in listing order
FS ==
    [p \in DOMAIN SampleDirs \cup {DirPath(g) : g \in GenDirs} |->
        IF p \in DOMAIN SampleDirs THEN SampleDirs[p] ELSE DirListing(p)]

\* what filedialog.askdirectory returns in the behaviours explored: the empty
\* string (a cancelled dialog), a tree with two supported files, a directory
\* with none
DirChoices == {<<>>, <<"/", "d">>, <<"/", "x">>}

\* os.walk(directory), top-down: one (root, filenames) entry per directory;
\* a path that is no directory yields nothing
RECURSIVE Walk(_), WalkAll(_, _)
Walk(root) ==
    IF root \notin DOMAIN FS THEN <<>>
    ELSE <<[root |-> root, filenames |-> FS[root].files]>> \o WalkAll(root, FS[root].dirs)
WalkAll(root, dirs) ==
    IF dirs = <<>> THEN <<>>
    ELSE Walk(Join(root, Head(dirs))) \o WalkAll(root, Tail(dirs))

supported_extensions ==
    << <<".", "p", "d", "f">>, <<".", "m", "d">>, <<".", "t", "x", "t">> >>

\* the extension test without filename.lower()
IsSupported_nolower(filename) ==
    \E i \in 1..Len(supported_extensions) :
        EndsWith(filename, supported_extensions[i])

\* any(filename.lower().endswith(ext) for ext in supported_extensions)
IsSupported(filename) ==
    \E i \in 1..Len(supported_extensions) :
        EndsWith(Lower(filename), supported_extensions[i])

RECURSIVE ScanFiles(_, _)
ScanFiles(root, filenames) ==
    IF filenames = <<>> THEN <<>>
    ELSE (IF IsSupported(Head(filenames)) THEN <<Join(root, Head(filenames))>> ELSE <<>>)
         \o ScanFiles(root, Tail(filenames))

RECURSIVE ScanWalk(_)
ScanWalk(entries) ==
    IF entries = <<>> THEN <<>>
    ELSE ScanFiles(Head(entries).root, Head(entries).filenames) \o ScanWalk(Tail(entries))

scan_supported_files(directory) == ScanWalk(Walk(directory))

\* ------------------------------------------------------------------------
\* Agent factory pieces
\* ------------------------------------------------------------------------
\* the provider tag prefixed without looking at the model name
LlmModel_always(selected_model) == OllamaPrefix \o selected_model

\* f"ollama/{selected_model}" if not selected_model.startswith("ollama/") else selected_model
LlmModel(selected_model) ==
    IF ~StartsWith(selected_model, OllamaPrefix)
    THEN OllamaPrefix \o selected_model
    ELSE selected_model

\* ------------------------------------------------------------------------
\* Inputs
\* ------------------------------------------------------------------------
\* outcomes of `ollama list` at start-up:
\*   the executable is missing;
\*   "NAME ID\nm1 a\nollama/m1 b\n";
\*   exit status 0 with nothing printed
ListingRuns ==
    { [kind |-> "missing"],
      [kind |-> "ok",
       output |-> <<"N", "A", "M", "E", " ", "I", "D", "\n",
                    "m", "1", " ", "a", "\n",
                    "o", "l", "l", "a", "m", "a", "/", "m", "1", " ", "b", "\n">>],
      [kind |-> "ok", output |-> <<>>] }

\* texts the query entry may hold when Submit is pressed: "", "  ", " 2+2 "
Queries == { <<>>, <<" ", " ">>, <<" ", "2", "+", "2", " ">> }

\* values agent.start may return: "4", "", None, the integer 4
StartResults ==
    { [type |-> "str", text |-> <<"4">>],
      [type |-> "str", text |-> <<>>],
      None,
      [type |-> "int", int |-> 4] }

\* every model name a listing above can yield
KnownModels ==
    UNION { {get_ollama_models(run)[i] : i \in 1..Len(get_ollama_models(run))} :
            run \in ListingRuns }

Modes == {"Chat", "RAG"}

RagControls == {"doc_button", "file_label", "upload_button"}

\* ------------------------------------------------------------------------
\* State
\* ------------------------------------------------------------------------
VARIABLES
    ollama_models,       \* self.ollama_models
    model_var,           \* self.model_var
    mode,                \* self.mode
    visible,             \* which RAG-only widgets are gridded
    selected_directory,  \* self.selected_directory
    selected_files,      \* self.selected_files
    upload_in_progress,  \* self.upload_in_progress
    agent,               \* self.agent
    chat_agent,          \* self.chat_agent
    answer_text,         \* text of self.answer_text
    mainPc,              \* main thread: "idle", "chat_start", "rag_start"
    call,                \* the agent.start call the main thread is inside, or None
    threads,             \* the upload threads spawned so far, in order
    last                 \* the step taken last and its outcome (message box shown)

vars ==
    <<ollama_models, model_var, mode, visible, selected_directory, selected_files,
      upload_in_progress, agent, chat_agent, answer_text, mainPc,
      call, threads, last>>

\* the widgets and entry the user acts on
uiVars == <<model_var, mode, visible>>
\* the document selection
dirVars == <<selected_directory, selected_files>>
\* the main thread's position
mainVars == <<mainPc, call>>

\* upload threads that have not left _upload_document_thread
Running == {t \in 1..Len(threads) : threads[t].pc # "done"}

\* the RAG-only widgets are shown exactly in RAG mode
ControlsFor(m) == [w \in RagControls |-> m # "Chat"]

\* RAGApplication.__init__, for one outcome of `ollama list`
Init ==
    \E run \in ListingRuns :
        /\ ollama_models = get_ollama_models(run)
        /\ model_var = (IF ollama_models # <<>> THEN ollama_models[1] ELSE EmptyStr)
        /\ mode = "Chat"
        /\ visible = ControlsFor("Chat")
        /\ selected_directory = EmptyStr
        /\ selected_files = <<>>
        /\ upload_in_progress = FALSE
        /\ agent = None
        /\ chat_agent = None
        /\ answer_text = EmptyStr
        /\ mainPc = "idle"
        /\ call = None
        /\ threads = <<>>
        /\ last = [op |-> "__init__", outcome |-> "built"]

\* ------------------------------------------------------------------------
\* Widget events that run no handler of the application
\* ------------------------------------------------------------------------
\* the OptionMenu offers exactly the discovered models
SelectModel(m) ==
    /\ mainPc = "idle"
    /\ InList(m, ollama_models)
    /\ model_var' = m
    /\ last' = [op |-> "SelectModel", outcome |-> "step"]
    /\ UNCHANGED <<ollama_models, mode, visible, dirVars,
                   upload_in_progress, agent, chat_agent, answer_text, mainVars,
                   threads>>

\* ------------------------------------------------------------------------
\* on_mode_change: a radio button sets self.mode and calls the handler
\* ------------------------------------------------------------------------
\* the handler flipping the controls instead of setting them from the mode
on_mode_change_flip(value) ==
    /\ mainPc = "idle"
    /\ mode' = value
    /\ visible' = [w \in RagControls |-> ~visible[w]]
    /\ last' = [op |-> "on_mode_change", outcome |-> "toggled"]
    /\ UNCHANGED <<ollama_models, model_var, dirVars,
                   upload_in_progress, agent, chat_agent, answer_text, mainVars,
                   threads>>

on_mode_change(value) ==
    /\ mainPc = "idle"
    /\ mode' = value
    /\ visible' = ControlsFor(mode')
    /\ last' = [op |-> "on_mode_change", outcome |-> "toggled"]
    /\ UNCHANGED <<ollama_models, model_var, dirVars,
                   upload_in_progress, agent, chat_agent, answer_text, mainVars,
                   threads>>

\* ------------------------------------------------------------------------
\* browse_directory
\* ------------------------------------------------------------------------
\* the scan appended to the files already selected instead of replacing them
browse_directory_extend(directory) ==
    /\ mainPc = "idle"
    /\ visible["doc_button"]
    /\ IF directory # EmptyStr
       THEN /\ selected_directory' = directory
            /\ selected_files' = selected_files \o scan_supported_files(directory)
            /\ last' = [op |-> "browse_directory", outcome |-> "selected",
                        directory |-> directory]
       ELSE /\ UNCHANGED dirVars
            /\ last' = [op |-> "browse_directory", outcome |-> "cancelled",
                        directory |-> directory]
    /\ UNCHANGED <<ollama_models, uiVars, upload_in_progress, agent, chat_agent,
                   answer_text, mainVars, threads>>

browse_directory(directory) ==
    /\ mainPc = "idle"
    /\ visible["doc_button"]
    /\ IF directory # EmptyStr
       THEN /\ selected_directory' = directory
            /\ selected_files' = scan_supported_files(directory)
            /\ last' = [op |-> "browse_directory", outcome |-> "selected",
                        directory |-> directory]
       ELSE /\ UNCHANGED dirVars
            /\ last' = [op |-> "browse_directory", outcome |-> "cancelled",
                        directory |-> directory]
    /\ UNCHANGED <<ollama_models, uiVars, upload_in_progress, agent, chat_agent,
                   answer_text, mainVars, threads>>

\* ------------------------------------------------------------------------
\* upload_document (main thread) and _upload_document_thread (worker)
\* ------------------------------------------------------------------------
\* upload_document without its first check (the in-progress guard)
upload_document_unguarded ==
    /\ mainPc = "idle"
    /\ visible["upload_button"]
    /\ IF selected_directory = EmptyStr
       THEN /\ last' = [op |-> "upload_document", outcome |-> "no_directory"]
            /\ UNCHANGED <<upload_in_progress, threads>>
       ELSE IF selected_files = <<>>
       THEN /\ last' = [op |-> "upload_document", outcome |-> "no_files"]
            /\ UNCHANGED <<upload_in_progress, threads>>
       ELSE IF ~InList(model_var, ollama_models)
       THEN /\ last' = [op |-> "upload_document", outcome |-> "model_unavailable"]
            /\ UNCHANGED <<upload_in_progress, threads>>
       ELSE /\ Len(threads) < MaxUploads
            /\ upload_in_progress' = TRUE
            /\ threads' = Append(threads, [pc |-> "begin", selected_model |-> model_var,
                                           llm |-> EmptyStr, knowledge |-> <<>>,
                                           count |-> 0, raised |-> FALSE])
            /\ last' = [op |-> "upload_document", outcome |-> "started"]
    /\ UNCHANGED <<ollama_models, uiVars, dirVars, agent, chat_agent, answer_text,
                   mainVars>>

\* upload_document without the model membership check
upload_document_anymodel ==
    /\ mainPc = "idle"
    /\ visible["upload_button"]
    /\ IF upload_in_progress
       THEN /\ last' = [op |-> "upload_document", outcome |-> "in_progress"]
            /\ UNCHANGED <<upload_in_progress, threads>>
       ELSE IF selected_directory = EmptyStr
       THEN /\ last' = [op |-> "upload_document", outcome |-> "no_directory"]
            /\ UNCHANGED <<upload_in_progress, threads>>
       ELSE IF selected_files = <<>>
       THEN /\ last' = [op |-> "upload_document", outcome |-> "no_files"]
            /\ UNCHANGED <<upload_in_progress, threads>>
       ELSE /\ Len(threads) < MaxUploads
            /\ upload_in_progress' = TRUE
            /\ threads' = Append(threads, [pc |-> "begin", selected_model |-> model_var,
                                           llm |-> EmptyStr, knowledge |-> <<>>,
                                           count |-> 0, raised |-> FALSE])
            /\ last' = [op |-> "upload_document", outcome |-> "started"]
    /\ UNCHANGED <<ollama_models, uiVars, dirVars, agent, chat_agent, answer_text,
                   mainVars>>

\* upload_document setting the flag before it validates, and returning early
\* without resetting it
upload_document_flagfirst ==
    /\ mainPc = "idle"
    /\ visible["upload_button"]
    /\ IF upload_in_progress
       THEN /\ last' = [op |-> "upload_document", outcome |-> "in_progress"]
            /\ UNCHANGED <<upload_in_progress, threads>>
       ELSE /\ upload_in_progress' = TRUE
            /\ IF selected_directory = EmptyStr
               THEN /\ last' = [op |-> "upload_document", outcome |-> "no_directory"]
                    /\ UNCHANGED threads
               ELSE IF selected_files = <<>>
               THEN /\ last' = [op |-> "upload_document", outcome |-> "no_files"]
                    /\ UNCHANGED threads
               ELSE IF ~InList(model_var, ollama_models)
               THEN /\ last' = [op |-> "upload_document", outcome |-> "model_unavailable"]
                    /\ UNCHANGED threads
               ELSE /\ Len(threads) < MaxUploads
                    /\ threads' = Append(threads,
                                         [pc |-> "begin", selected_model |-> model_var,
                                          llm |-> EmptyStr, knowledge |-> <<>>,
                                          count |-> 0, raised |-> FALSE])
                    /\ last' = [op |-> "upload_document", outcome |-> "started"]
    /\ UNCHANGED <<ollama_models, uiVars, dirVars, agent, chat_agent, answer_text,
                   mainVars>>

\* the thread object created by threading.Thread
\* raised: whether the try block raised
\* validated: self.selected_files as upload_document found it when it accepted
\* the request (kept for the properties; the code keeps no such copy)
NewThread(selected_model) ==
    [pc |-> "begin", selected_model |-> selected_model, llm |-> EmptyStr,
     knowledge |-> <<>>, count |-> 0, raised |-> FALSE,
     validated |-> selected_files]

\* a thread whose function has returned: its locals are gone
Finished(raised) ==
    [pc |-> "done", selected_model |-> EmptyStr, llm |-> EmptyStr,
     knowledge |-> <<>>, count |-> 0, raised |-> raised, validated |-> <<>>]

upload_document ==
    /\ mainPc = "idle"
    /\ visible["upload_button"]
    /\ IF upload_in_progress
       THEN /\ last' = [op |-> "upload_document", outcome |-> "in_progress"]
            /\ UNCHANGED <<upload_in_progress, threads>>
       ELSE IF selected_directory = EmptyStr
       THEN /\ last' = [op |-> "upload_document", outcome |-> "no_directory"]
            /\ UNCHANGED <<upload_in_progress, threads>>
       ELSE IF selected_files = <<>>
       THEN /\ last' = [op |-> "upload_document", outcome |-> "no_files"]
            /\ UNCHANGED <<upload_in_progress, threads>>
       ELSE IF ~InList(model_var, ollama_models)
       THEN /\ last' = [op |-> "upload_document", outcome |-> "model_unavailable"]
            /\ UNCHANGED <<upload_in_progress, threads>>
       ELSE /\ Len(threads) < MaxUploads
            /\ upload_in_progress' = TRUE
            /\ threads' = Append(threads, NewThread(model_var))
            /\ last' = [op |-> "upload_document", outcome |-> "started"]
    /\ UNCHANGED <<ollama_models, uiVars, dirVars, agent, chat_agent, answer_text,
                   mainVars>>

\* the thread evaluates the arguments of Agent(...) and enters the constructor:
\* knowledge is self.selected_files as it is now
UploadThread_CallAgent(t) ==
    /\ t <= Len(threads)
    /\ threads[t].pc = "begin"
    /\ threads' = [threads EXCEPT ![t].pc = "constructing",
                                  ![t].llm = LlmModel(threads[t].selected_model),
                                  ![t].knowledge = selected_files]
    /\ last' = [op |-> "_upload_document_thread", outcome |-> "step"]
    /\ UNCHANGED <<ollama_models, uiVars, dirVars, upload_in_progress, agent,
                   chat_agent, answer_text, mainVars>>

\* the constructed agent kept in a local variable instead of self.agent
UploadThread_AgentReturns_local(t) ==
    /\ t <= Len(threads)
    /\ threads[t].pc = "constructing"
    /\ threads' = [threads EXCEPT ![t].pc = "notice_ok",
                                  ![t].count = Len(selected_files)]
    /\ last' = [op |-> "_upload_document_thread", outcome |-> "step"]
    /\ UNCHANGED <<ollama_models, uiVars, dirVars, upload_in_progress, agent,
                   chat_agent, answer_text, mainVars>>

\* the constructor returns: self.agent is assigned and the success notice is
\* raised with len(self.selected_files) as it is now
UploadThread_AgentReturns(t) ==
    /\ t <= Len(threads)
    /\ threads[t].pc = "constructing"
    /\ agent' = [id |-> t, name |-> "Knowledge Agent", llm |-> threads[t].llm,
                 knowledge |-> threads[t].knowledge]
    /\ threads' = [threads EXCEPT ![t].pc = "notice_ok",
                                  ![t].count = Len(selected_files)]
    /\ last' = [op |-> "_upload_document_thread", outcome |-> "step"]
    /\ UNCHANGED <<ollama_models, uiVars, dirVars, upload_in_progress, chat_agent,
                   answer_text, mainVars>>

\* the constructor raises: the except clause raises the error notice
UploadThread_AgentRaises(t) ==
    /\ t <= Len(threads)
    /\ threads[t].pc = "constructing"
    /\ threads' = [threads EXCEPT ![t].pc = "notice_err", ![t].raised = TRUE]
    /\ last' = [op |-> "_upload_document_thread", outcome |-> "step"]
    /\ UNCHANGED <<ollama_models, uiVars, dirVars, upload_in_progress, agent,
                   chat_agent, answer_text, mainVars>>

\* the except clause without its self.agent = None
UploadThread_NoticeDismissed_keep(t) ==
    /\ t <= Len(threads)
    /\ threads[t].pc \in {"notice_ok", "notice_err"}
    /\ threads' = [threads EXCEPT ![t].pc = "finally"]
    /\ last' = [op |-> "_upload_document_thread", outcome |-> "step"]
    /\ UNCHANGED <<ollama_models, uiVars, dirVars, upload_in_progress, agent,
                   chat_agent, answer_text, mainVars>>

\* the notice is dismissed; after the error notice the except clause goes on
\* to self.agent = None
UploadThread_NoticeDismissed(t) ==
    /\ t <= Len(threads)
    /\ threads[t].pc \in {"notice_ok", "notice_err"}
    /\ agent' = (IF threads[t].pc = "notice_err" THEN None ELSE agent)
    /\ threads' = [threads EXCEPT ![t].pc = "finally"]
    /\ last' = [op |-> "_upload_document_thread", outcome |-> "step"]
    /\ UNCHANGED <<ollama_models, uiVars, dirVars, upload_in_progress, chat_agent,
                   answer_text, mainVars>>

\* the flag cleared at the end of the try block instead of in finally: a
\* thread whose try block raised leaves it set
UploadThread_Finally_tryonly(t) ==
    /\ t <= Len(threads)
    /\ threads[t].pc = "finally"
    /\ upload_in_progress' = threads[t].raised
    /\ threads' = [threads EXCEPT ![t] = [pc |-> "done", selected_model |-> EmptyStr,
                                          llm |-> EmptyStr, knowledge |-> <<>>,
                                          count |-> 0, raised |-> threads[t].raised,
                                          validated |-> <<>>]]
    /\ last' = [op |-> "_upload_document_thread", outcome |-> "step"]
    /\ UNCHANGED <<ollama_models, uiVars, dirVars, agent, chat_agent, answer_text,
                   mainVars>>

\* finally: self.upload_in_progress = False, and the thread function returns
UploadThread_Finally(t) ==
    /\ t <= Len(threads)
    /\ threads[t].pc = "finally"
    /\ upload_in_progress' = FALSE
    /\ threads' = [threads EXCEPT ![t] = Finished(threads[t].raised)]
    /\ last' = [op |-> "_upload_document_thread", outcome |-> "step"]
    /\ UNCHANGED <<ollama_models, uiVars, dirVars, agent, chat_agent, answer_text,
                   mainVars>>

\* ------------------------------------------------------------------------
\* create_chat_agent
\* ------------------------------------------------------------------------
\* The identity of an object constructed while self.chat_agent still refers to
\* `held`: it differs from the identity of the object held (which is alive
\* during the construction); an identity no longer held may be taken again.
NewIdentity(held) == IF held = None THEN 1 ELSE 3 - held.id

\* The value self.chat_agent has when create_chat_agent returns: the new Agent
\* when the constructor returned (the function returns True), None when it
\* raised (the function returns False). A new Agent carries no _model attribute.
create_chat_agent(selected_model, constructed) ==
    IF constructed
    THEN [id |-> NewIdentity(chat_agent), name |-> "Chat Agent",
          llm |-> LlmModel(selected_model), tagged |-> FALSE, _model |-> EmptyStr]
    ELSE None

\* getattr(a, '_model', None) != selected_model
ModelTagDiffers(a, selected_model) == ~a.tagged \/ a._model # selected_model

\* ------------------------------------------------------------------------
\* Rendering of a start() result
\* ------------------------------------------------------------------------
DigitChar(d) ==
    CASE d = 0 -> "0" [] d = 1 -> "1" [] d = 2 -> "2" [] d = 3 -> "3" [] d = 4 -> "4"
      [] d = 5 -> "5" [] d = 6 -> "6" [] d = 7 -> "7" [] d = 8 -> "8" [] d = 9 -> "9"

RECURSIVE IntToStr(_)
IntToStr(n) ==
    IF n < 10 THEN <<DigitChar(n)>>
    ELSE IntToStr(n \div 10) \o <<DigitChar(n % 10)>>

\* str(result) for the non-text results modelled
PyStr(result) == IntToStr(result.int)

\* isinstance(result, str)
IsStr(result) == result # None /\ result.type = "str"

\* str(result) applied to every non-text result, None included
ResultStr_strnone(result) ==
    IF ~IsStr(result)
    THEN (IF result # None THEN PyStr(result) ELSE <<"N", "o", "n", "e">>)
    ELSE result.text

\* the text inserted into self.answer_text
ResultStr(result) ==
    IF ~IsStr(result)
    THEN (IF result # None THEN PyStr(result) ELSE NoResponse)
    ELSE result.text

\* ------------------------------------------------------------------------
\* run_query, _handle_chat_query, _handle_rag_query
\* ------------------------------------------------------------------------
\* _handle_chat_query without the model membership check
_handle_chat_query_anymodel(query) ==
    LET selected_model == model_var IN
    IF chat_agent = None \/ ModelTagDiffers(chat_agent, selected_model)
    THEN \E constructed \in BOOLEAN :
              LET created == create_chat_agent(selected_model, constructed) IN
              IF created = None
              THEN /\ chat_agent' = None
                   /\ last' = [op |-> "run_query", outcome |-> "chat_create_failed",
                               query |-> query, had_cached |-> chat_agent # None]
                   /\ UNCHANGED mainVars
              ELSE /\ chat_agent' = [created EXCEPT !.tagged = TRUE,
                                                    !._model = selected_model]
                   /\ mainPc' = "chat_start"
                   /\ call' = [agent |-> chat_agent', query |-> query]
                   /\ last' = [op |-> "run_query", outcome |-> "chat_built_start", query |-> query]
    ELSE /\ mainPc' = "chat_start"
         /\ call' = [agent |-> chat_agent, query |-> query]
         /\ last' = [op |-> "run_query", outcome |-> "chat_cached_start", query |-> query]
         /\ UNCHANGED chat_agent

\* _handle_chat_query building an agent only when none exists: the cached
\* agent is not compared with the selected model
_handle_chat_query_nokey(query) ==
    LET selected_model == model_var IN
    IF ~InList(selected_model, ollama_models)
    THEN /\ last' = [op |-> "run_query", outcome |-> "chat_model_unavailable",
                    query |-> query, named |-> selected_model]
         /\ UNCHANGED <<chat_agent, mainVars>>
    ELSE IF chat_agent = None
    THEN \E constructed \in BOOLEAN :
              LET created == create_chat_agent(selected_model, constructed) IN
              IF created = None
              THEN /\ chat_agent' = None
                   /\ last' = [op |-> "run_query", outcome |-> "chat_create_failed",
                               query |-> query, had_cached |-> chat_agent # None]
                   /\ UNCHANGED mainVars
              ELSE /\ chat_agent' = [created EXCEPT !.tagged = TRUE,
                                                    !._model = selected_model]
                   /\ mainPc' = "chat_start"
                   /\ call' = [agent |-> chat_agent', query |-> query]
                   /\ last' = [op |-> "run_query", outcome |-> "chat_built_start", query |-> query]
    ELSE /\ mainPc' = "chat_start"
         /\ call' = [agent |-> chat_agent, query |-> query]
         /\ last' = [op |-> "run_query", outcome |-> "chat_cached_start", query |-> query]
         /\ UNCHANGED chat_agent

\* up to the call of self.chat_agent.start(query)
_handle_chat_query(query) ==
    LET selected_model == model_var IN
    IF ~InList(selected_model, ollama_models)
    THEN /\ last' = [op |-> "run_query", outcome |-> "chat_model_unavailable",
                    query |-> query, named |-> selected_model]
         /\ UNCHANGED <<chat_agent, mainVars>>
    ELSE IF chat_agent = None \/ ModelTagDiffers(chat_agent, selected_model)
    THEN \E constructed \in BOOLEAN :
              LET created == create_chat_agent(selected_model, constructed) IN
              IF created = None
              THEN /\ chat_agent' = None
                   /\ last' = [op |-> "run_query", outcome |-> "chat_create_failed",
                               query |-> query, had_cached |-> chat_agent # None]
                   /\ UNCHANGED mainVars
              ELSE /\ chat_agent' = [created EXCEPT !.tagged = TRUE,
                                                    !._model = selected_model]
                   /\ mainPc' = "chat_start"
                   /\ call' = [agent |-> chat_agent', query |-> query]
                   /\ last' = [op |-> "run_query", outcome |-> "chat_built_start", query |-> query]
    ELSE /\ mainPc' = "chat_start"
         /\ call' = [agent |-> chat_agent, query |-> query]
         /\ last' = [op |-> "run_query", outcome |-> "chat_cached_start", query |-> query]
         /\ UNCHANGED chat_agent

\* _handle_rag_query without the upload_in_progress check
_handle_rag_query_nobusy(query) ==
    IF agent = None
    THEN /\ last' = [op |-> "run_query", outcome |-> "rag_upload_first", query |-> query]
         /\ UNCHANGED <<chat_agent, mainVars>>
    ELSE /\ mainPc' = "rag_start"
         /\ call' = [agent |-> agent, query |-> query]
         /\ last' = [op |-> "run_query", outcome |-> "rag_start", query |-> query]
         /\ UNCHANGED chat_agent

\* _handle_rag_query without the check that an agent exists
_handle_rag_query_noagentcheck(query) ==
    IF upload_in_progress
    THEN /\ last' = [op |-> "run_query", outcome |-> "rag_busy", query |-> query]
         /\ UNCHANGED <<chat_agent, mainVars>>
    ELSE /\ mainPc' = "rag_start"
         /\ call' = [agent |-> agent, query |-> query]
         /\ last' = [op |-> "run_query", outcome |-> "rag_start", query |-> query]
         /\ UNCHANGED chat_agent

\* up to the call of self.agent.start(query)
_handle_rag_query(query) ==
    IF upload_in_progress
    THEN /\ last' = [op |-> "run_query", outcome |-> "rag_busy", query |-> query]
         /\ UNCHANGED <<chat_agent, mainVars>>
    ELSE IF agent = None
    THEN /\ last' = [op |-> "run_query", outcome |-> "rag_upload_first", query |-> query]
         /\ UNCHANGED <<chat_agent, mainVars>>
    ELSE /\ mainPc' = "rag_start"
         /\ call' = [agent |-> agent, query |-> query]
         /\ last' = [op |-> "run_query", outcome |-> "rag_start", query |-> query]
         /\ UNCHANGED chat_agent

\* run_query testing the entry text as typed, without strip()
run_query_nostrip(entry_text) ==
    /\ mainPc = "idle"
    /\ LET query == entry_text IN
       IF query = EmptyStr
       THEN /\ last' = [op |-> "run_query", outcome |-> "empty_query", entry |-> entry_text]
            /\ UNCHANGED <<chat_agent, mainVars>>
       ELSE IF mode = "Chat"
       THEN _handle_chat_query(query)
       ELSE _handle_rag_query(query)
    /\ UNCHANGED <<ollama_models, uiVars, dirVars, upload_in_progress, agent,
                   answer_text, threads>>

\* entry_text: what self.query_entry holds when Submit is pressed
run_query(entry_text) ==
    /\ mainPc = "idle"
    /\ LET query == Strip(entry_text) IN
       IF query = EmptyStr
       THEN /\ last' = [op |-> "run_query", outcome |-> "empty_query", entry |-> entry_text]
            /\ UNCHANGED <<chat_agent, mainVars>>
       ELSE IF mode = "Chat"
       THEN _handle_chat_query(query)
       ELSE _handle_rag_query(query)
    /\ UNCHANGED <<ollama_models, uiVars, dirVars, upload_in_progress, agent,
                   answer_text, threads>>

\* self.chat_agent.start(query) returns: the result is rendered
ChatQuery_StartReturns(result) ==
    /\ mainPc = "chat_start"
    /\ answer_text' = ResultStr(result)
    /\ mainPc' = "idle"
    /\ call' = None
    /\ last' = [op |-> "_handle_chat_query", outcome |-> "answered", result |-> result]
    /\ UNCHANGED <<ollama_models, uiVars, dirVars, upload_in_progress, agent,
                   chat_agent, threads>>

\* the except clause around chat_agent.start also unsetting self.chat_agent
ChatQuery_StartRaises_reset ==
    /\ mainPc = "chat_start"
    /\ mainPc' = "idle"
    /\ call' = None
    /\ chat_agent' = None
    /\ last' = [op |-> "_handle_chat_query", outcome |-> "start_raised"]
    /\ UNCHANGED <<ollama_models, uiVars, dirVars, upload_in_progress, agent,
                   answer_text, threads>>

\* self.chat_agent.start(query) raises: the except clause shows the error
ChatQuery_StartRaises ==
    /\ mainPc = "chat_start"
    /\ mainPc' = "idle"
    /\ call' = None
    /\ last' = [op |-> "_handle_chat_query", outcome |-> "start_raised"]
    /\ UNCHANGED <<ollama_models, uiVars, dirVars, upload_in_progress, agent,
                   chat_agent, answer_text, threads>>

\* self.agent.start(query) returns: the result is rendered
RagQuery_StartReturns(result) ==
    /\ mainPc = "rag_start"
    /\ answer_text' = ResultStr(result)
    /\ mainPc' = "idle"
    /\ call' = None
    /\ last' = [op |-> "_handle_rag_query", outcome |-> "answered", result |-> result]
    /\ UNCHANGED <<ollama_models, uiVars, dirVars, upload_in_progress, agent,
                   chat_agent, threads>>

\* agent.start called outside any try: the exception leaves run_query
RagQuery_StartRaises_propagates ==
    /\ mainPc = "rag_start"
    /\ mainPc' = "raised"
    /\ call' = None
    /\ last' = [op |-> "_handle_rag_query", outcome |-> "start_raised"]
    /\ UNCHANGED <<ollama_models, uiVars, dirVars, upload_in_progress, agent,
                   chat_agent, answer_text, threads>>

\* the except clause around agent.start also unsetting self.agent
RagQuery_StartRaises_reset ==
    /\ mainPc = "rag_start"
    /\ mainPc' = "idle"
    /\ call' = None
    /\ agent' = None
    /\ last' = [op |-> "_handle_rag_query", outcome |-> "start_raised"]
    /\ UNCHANGED <<ollama_models, uiVars, dirVars, upload_in_progress,
                   chat_agent, answer_text, threads>>

\* self.agent.start(query) raises: the except clause shows the error
RagQuery_StartRaises ==
    /\ mainPc = "rag_start"
    /\ mainPc' = "idle"
    /\ call' = None
    /\ last' = [op |-> "_handle_rag_query", outcome |-> "start_raised"]
    /\ UNCHANGED <<ollama_models, uiVars, dirVars, upload_in_progress, agent,
                   chat_agent, answer_text, threads>>

\* ------------------------------------------------------------------------
\* Specifications
\* ------------------------------------------------------------------------
MainStep ==
    \/ \E m \in KnownModels : SelectModel(m)
    \/ \E value \in Modes : on_mode_change(value)
    \/ \E directory \in DirChoices : browse_directory(directory)
    \/ upload_document
    \/ \E entry_text \in Queries : run_query(entry_text)
    \/ \E result \in StartResults : ChatQuery_StartReturns(result)
    \/ ChatQuery_StartRaises
    \/ \E result \in StartResults : RagQuery_StartReturns(result)
    \/ RagQuery_StartRaises

ThreadStep(t) ==
    \/ UploadThread_CallAgent(t)
    \/ UploadThread_AgentReturns(t)
    \/ UploadThread_AgentRaises(t)
    \/ UploadThread_NoticeDismissed(t)
    \/ UploadThread_Finally(t)

Next ==
    \/ MainStep
    \/ \E t \in 1..MaxUploads : ThreadStep(t)

Spec == Init /\ [][Next]_vars


\* a step an upload thread takes by itself once it is scheduled (the Agent
\* call, the statements after the notice, the finally clause), or the
\* dismissal of the notice it raised
ThreadProgress ==
    \E t \in 1..MaxUploads :
        \/ UploadThread_CallAgent(t)
        \/ UploadThread_NoticeDismissed(t)
        \/ UploadThread_Finally(t)

\* Spec with the scheduling the program relies on: a started thread gets to
\* run, and a notice raised by the thread is eventually dismissed. Nothing is
\* assumed about the Agent constructor: the code sets no timeout on it.
FairSpec == Spec /\ WF_vars(ThreadProgress)

\* ------------------------------------------------------------------------
\* Model discovery at start-up, over generated outcomes of `ollama list`
\* ------------------------------------------------------------------------
\* most lines a generated listing has below its header
MaxRows == 3

\* the header `ollama list` prints, when it prints one: "NAME ID", "NAME"
HeaderLines ==
    { <<"N", "A", "M", "E", " ", "I", "D">>,
      <<"N", "A", "M", "E">> }

\* lines printed below the header, each with the model it lists (none for a
\* blank line): "m1 a", "  m2\tx", "q:7b", "", "  "
ListingRows ==
    { [text |-> <<"m", "1", " ", "a">>, name |-> <<"m", "1">>],
      [text |-> <<" ", " ", "m", "2", "\t", "x">>, name |-> <<"m", "2">>],
      [text |-> <<"q", ":", "7", "b">>, name |-> <<"q", ":", "7", "b">>],
      [text |-> <<>>, name |-> <<>>],
      [text |-> <<" ", " ">>, name |-> <<>>] }

\* what running `ollama list` can do: the executable is missing, it exits with
\* a non-zero status, or it exits with 0 having printed an optional header
\* and up to MaxRows lines
Listings ==
    { [kind |-> "missing"], [kind |-> "nonzero"] } \cup
    { [kind |-> "ok", header |-> h, rows |-> rs] :
        h \in {<<>>} \cup {<<x>> : x \in HeaderLines},
        rs \in UNION {[1..n -> ListingRows] : n \in 0..MaxRows} }

\* the lines as printed, each ended by a newline
RECURSIVE Unlines(_)
Unlines(lines) ==
    IF lines = <<>> THEN <<>>
    ELSE Head(lines) \o <<"\n">> \o Unlines(Tail(lines))

\* subprocess.check_output(["ollama", "list"], text=True) for a listing
check_output(l) ==
    IF l.kind = "ok"
    THEN [kind |-> "ok",
          output |-> Unlines(l.header \o [i \in 1..Len(l.rows) |-> l.rows[i].text])]
    ELSE [kind |-> l.kind]

\* the application object before its constructor has discovered the models
ModelsInit ==
    \E l \in Listings :
        /\ ollama_models = <<>>
        /\ model_var = EmptyStr
        /\ mode = "Chat"
        /\ visible = ControlsFor("Chat")
        /\ selected_directory = EmptyStr
        /\ selected_files = <<>>
        /\ upload_in_progress = FALSE
        /\ agent = None
        /\ chat_agent = None
        /\ answer_text = EmptyStr
        /\ mainPc = "idle"
        /\ call = None
        /\ threads = <<>>
        /\ last = [op |-> "check_output", outcome |-> "pending", listing |-> l]

\* RAGApplication.__init__: self.ollama_models = get_ollama_models() and the
\* initial value of self.model_var
__init__ ==
    /\ last.op = "check_output"
    /\ ollama_models' = get_ollama_models(check_output(last.listing))
    /\ model_var' = (IF ollama_models' # <<>> THEN ollama_models'[1] ELSE EmptyStr)
    /\ last' = [op |-> "__init__", outcome |-> "built", listing |-> last.listing]
    /\ UNCHANGED <<mode, visible, dirVars, upload_in_progress, agent, chat_agent,
                   answer_text, mainVars, threads>>

ModelsNext == __init__

ModelsSpec == ModelsInit /\ [][ModelsNext]_vars

\* ------------------------------------------------------------------------
\* Directory selection over generated directory trees
\* ------------------------------------------------------------------------
\* what filedialog.askdirectory may return: the empty string (cancelled) or
\* the top directory of a generated tree
ScanChoices == {EmptyStr} \cup {TreePath(T) : T \in GenTrees}

\* the application in RAG mode, nothing selected yet, as the directory dialog
\* opened by the Browse button returns
ScanInit ==
    \E d \in ScanChoices :
        /\ ollama_models = <<FallbackModel>>
        /\ model_var = FallbackModel
        /\ mode = "RAG"
        /\ visible = ControlsFor("RAG")
        /\ selected_directory = EmptyStr
        /\ selected_files = <<>>
        /\ upload_in_progress = FALSE
        /\ agent = None
        /\ chat_agent = None
        /\ answer_text = EmptyStr
        /\ mainPc = "idle"
        /\ call = None
        /\ threads = <<>>
        /\ last = [op |-> "askdirectory", outcome |-> "returned", directory |-> d]

\* browse_directory continues with what the dialog returned
ScanNext ==
    /\ last.op = "askdirectory"
    /\ browse_directory(last.directory)

ScanSpec == ScanInit /\ [][ScanNext]_vars

\* ------------------------------------------------------------------------
\* The application over listings of a single model of varied name
\* ------------------------------------------------------------------------
\* names a listed model may have: m1, ollama/m1, ollama, ollama/, Ollama/m1,
\* ollama/ollama/m1
ModelNames ==
    { <<"m", "1">>,
      OllamaPrefix \o <<"m", "1">>,
      <<"o", "l", "l", "a", "m", "a">>,
      OllamaPrefix,
      <<"O", "l", "l", "a", "m", "a", "/", "m", "1">>,
      OllamaPrefix \o OllamaPrefix \o <<"m", "1">> }

\* RAGApplication.__init__ when `ollama list` lists exactly one model
FactoryInit ==
    \E m \in ModelNames :
        /\ ollama_models = <<m>>
        /\ model_var = ollama_models[1]
        /\ mode = "Chat"
        /\ visible = ControlsFor("Chat")
        /\ selected_directory = EmptyStr
        /\ selected_files = <<>>
        /\ upload_in_progress = FALSE
        /\ agent = None
        /\ chat_agent = None
        /\ answer_text = EmptyStr
        /\ mainPc = "idle"
        /\ call = None
        /\ threads = <<>>
        /\ last = [op |-> "__init__", outcome |-> "built"]

FactorySpec == FactoryInit /\ [][Next]_vars

\* ------------------------------------------------------------------------
\* Properties
\* ------------------------------------------------------------------------
UploadOutcomes == {"in_progress", "no_directory", "no_files", "model_unavailable", "started"}
UploadRejections == UploadOutcomes \ {"started"}

\* the step just taken was upload_document / run_query
IsUploadRequest == last'.op = "upload_document"
IsQuery == last'.op = "run_query"

\* an upload request made while an upload thread is running is turned away with
\* the "already in progress" notice and starts nothing
SecondRequestRejected ==
    (IsUploadRequest /\ Running # {}) =>
        /\ last'.outcome = "in_progress"
        /\ threads' = threads
        /\ upload_in_progress' = upload_in_progress

\* an upload request that finds no thread running, a selected directory with
\* supported files and a listed model starts exactly one thread
FirstRequestStarts ==
    (IsUploadRequest /\ Running = {} /\ selected_directory # EmptyStr
        /\ selected_files # <<>> /\ InList(model_var, ollama_models)) =>
        /\ last'.outcome = "started"
        /\ Len(threads') = Len(threads) + 1
        /\ Cardinality({t \in 1..Len(threads') : threads'[t].pc # "done"}) = 1

\* C1: single-flight upload. At most one upload thread is running in every
\* reachable state; of two upload requests against a valid directory with none
\* completed, the first starts one indexing thread and the second is rejected
\* with the "already in progress" notice.
C1_SingleFlight ==
    /\ [](Cardinality(Running) <= 1)
    /\ [][SecondRequestRejected /\ FirstRequestStarts]_vars

\* a second request was just rejected while the first upload's thread runs
C1_Witness ==
    /\ last.op = "upload_document"
    /\ last.outcome = "in_progress"
    /\ Cardinality(Running) = 1
    /\ selected_files # <<>>

\* a RAG query submitted while the flag is set ends with the busy notice and
\* calls nothing, whether or not self.agent is set
BusyBeforeAgent ==
    (IsQuery /\ last'.outcome # "empty_query" /\ mode = "RAG" /\ upload_in_progress) =>
        /\ last'.outcome = "rag_busy"
        /\ mainPc' = "idle"
        /\ call' = None

\* C2: a RAG-mode query never calls start() on the knowledge agent while an
\* upload is in flight. The in-progress flag is consulted before the agent
\* reference (the busy notice wins whether or not an agent is set), and while
\* a RAG start() call executes no upload thread is running and the flag is clear.
C2_NoRagStartDuringUpload ==
    /\ [](mainPc = "rag_start" => (Running = {} /\ ~upload_in_progress))
    /\ [][BusyBeforeAgent]_vars

\* a RAG query was just refused as busy although an agent from an earlier
\* upload is set
C2_Witness ==
    /\ last.op = "run_query"
    /\ last.outcome = "rag_busy"
    /\ agent # None
    /\ Running # {}


\* the Agent constructor of thread t has returned or raised
ConstructorEnded(t) ==
    t <= Len(threads) /\ threads[t].pc \in {"notice_ok", "notice_err", "finally"}

\* C3: every started upload releases the in-flight flag. Once the knowledge
\* agent constructor has returned or raised, the flag eventually becomes false
\* (given that the notice is dismissed), on the success and the exception path
\* alike; and the flag is never left set when no upload thread is running, so
\* a later request is accepted again.
C3_FlagReleased ==
    /\ (\E t \in 1..MaxUploads : ConstructorEnded(t)) ~> ~upload_in_progress
    /\ [](Running = {} => ~upload_in_progress)

\* an upload whose constructor raised has finished and released the flag, and
\* a later request was accepted
C3_Witness ==
    /\ Len(threads) = 2
    /\ threads[1].pc = "done"
    /\ threads[1].raised
    /\ last.op = "upload_document"
    /\ last.outcome = "started"


\* the except clause of thread t has run to its end
ExceptClauseDone(t) == threads[t].raised /\ threads[t].pc \in {"finally", "done"}

\* C4: when the Agent constructor raises, the agent reference concerned is
\* unset afterwards. Once the except clause of the most recent upload thread
\* is done, self.agent is None, also when an earlier upload had succeeded; and
\* when create_chat_agent has failed, self.chat_agent is None, also when a chat
\* agent for another model was cached.
C4_FailureUnsetsAgent ==
    /\ \A t \in 1..Len(threads) :
          (ExceptClauseDone(t) /\ t = Len(threads)) => agent = None
    /\ (last.op = "run_query" /\ last.outcome = "chat_create_failed") =>
          chat_agent = None

\* the first upload succeeded and the second failed, and a chat agent was
\* cached when the construction that has just failed was attempted
C4_Witness ==
    /\ Len(threads) = 2
    /\ threads[1].pc = "done" /\ ~threads[1].raised
    /\ threads[2].pc = "done" /\ threads[2].raised
    /\ agent = None
    /\ last.op = "run_query"
    /\ last.outcome = "chat_create_failed"
    /\ last.had_cached
    /\ chat_agent = None


\* the three preconditions of an upload, at the time of the request
UploadPreconditions ==
    /\ selected_directory # EmptyStr
    /\ selected_files # <<>>
    /\ InList(model_var, ollama_models)

\* a step that sets the flag or starts a thread
FlagSetOrThreadStarted ==
    \/ ~upload_in_progress /\ upload_in_progress'
    \/ Len(threads') > Len(threads)

\* C5: upload_document sets upload_in_progress and starts a background thread
\* only when, at the time of the request, a directory is selected,
\* selected_files is non-empty and the selected model is in the discovered
\* list; and nothing but an accepted upload request sets the flag or starts a
\* thread.
C5_StartOnlyWhenValid ==
    [][FlagSetOrThreadStarted =>
          /\ IsUploadRequest
          /\ last'.outcome = "started"
          /\ UploadPreconditions
          /\ upload_in_progress'
          /\ Len(threads') = Len(threads) + 1]_vars

\* a request has just been accepted and its thread has not run yet
C5_Witness ==
    /\ last.op = "upload_document"
    /\ last.outcome = "started"
    /\ upload_in_progress
    /\ threads[Len(threads)].pc = "begin"
    /\ selected_directory # EmptyStr /\ selected_files # <<>>

\* which check of upload_document turns the request away, in the order taken
UploadRejectionDue ==
    IF upload_in_progress THEN "in_progress"
    ELSE IF selected_directory = EmptyStr THEN "no_directory"
    ELSE IF selected_files = <<>> THEN "no_files"
    ELSE IF ~InList(model_var, ollama_models) THEN "model_unavailable"
    ELSE "none"

\* C6: a rejected upload request changes no state. Whenever an upload is in
\* flight, no directory is selected, no supported file was found or the model
\* is not in the discovered list, upload_document returns early with the
\* matching notice, and upload_in_progress, agent, chat_agent,
\* selected_directory and selected_files are unchanged and no thread starts.
C6_RejectedUploadNoChange ==
    [][(IsUploadRequest /\ (UploadRejectionDue # "none"
                              \/ last'.outcome \in UploadRejections)) =>
          /\ last'.outcome = UploadRejectionDue
          /\ UNCHANGED <<upload_in_progress, agent, chat_agent, selected_directory,
                         selected_files, threads>>]_vars

\* a request was just rejected for want of supported files, in a state where
\* an agent from an earlier upload and a chat agent exist
C6_Witness ==
    /\ last.op = "upload_document"
    /\ last.outcome = "no_files"
    /\ selected_directory # EmptyStr
    /\ ~upload_in_progress
    /\ agent # None
    /\ chat_agent # None


\* the step just taken was run_query and the query passed the emptiness test
IsDispatchedQuery == IsQuery /\ last'.outcome # "empty_query"

\* the step made no agent.start call and built no agent
NothingInvoked ==
    mainPc' = "idle" /\ call' = None /\ chat_agent' = chat_agent /\ agent' = agent

\* C7: a RAG-mode query submitted when no knowledge agent exists and no upload
\* is in flight (before any successful upload, or after the most recent upload
\* failed) is rejected with the "upload first" error and makes no start() call.
C7_UploadFirst ==
    [][(IsDispatchedQuery /\ mode = "RAG" /\ agent = None /\ ~upload_in_progress) =>
          /\ last'.outcome = "rag_upload_first"
          /\ NothingInvoked
          /\ agent' = None]_vars

\* the "upload first" error was just shown after a successful upload was
\* followed by a failed one
C7_Witness ==
    /\ last.op = "run_query"
    /\ last.outcome = "rag_upload_first"
    /\ Len(threads) = 2
    /\ ~threads[1].raised
    /\ threads[2].pc = "done" /\ threads[2].raised
    /\ mainPc = "idle"

\* C8: in either mode a query that is empty or whitespace-only after trimming
\* is rejected before any agent is constructed or invoked, and chat_agent,
\* agent and upload_in_progress are unchanged; a query that goes on to a mode
\* handler is the trimmed text and is not empty.
C8_EmptyQueryRejected ==
    [][/\ (IsQuery /\ last'.outcome = "empty_query") =>
              /\ Strip(last'.entry) = EmptyStr
              /\ NothingInvoked
              /\ UNCHANGED <<chat_agent, agent, upload_in_progress>>
       /\ IsDispatchedQuery =>
              /\ last'.query # EmptyStr
              /\ Strip(last'.query) = last'.query]_vars

\* a whitespace-only query was just rejected in RAG mode while a knowledge
\* agent and a chat agent exist
C8_Witness ==
    /\ last.op = "run_query"
    /\ last.outcome = "empty_query"
    /\ last.entry # EmptyStr
    /\ mode = "RAG"
    /\ agent # None
    /\ chat_agent # None

\* C9: in chat mode a non-empty query submitted while the selected model is
\* not in the discovered model list is rejected with an error naming that
\* model; no chat agent is built or invoked and chat_agent is unchanged.
C9_ChatModelUnavailable ==
    [][(IsDispatchedQuery /\ mode = "Chat" /\ ~InList(model_var, ollama_models)) =>
          /\ last'.outcome = "chat_model_unavailable"
          /\ last'.named = model_var
          /\ NothingInvoked
          /\ UNCHANGED chat_agent]_vars

\* the named-model error was just shown
C9_Witness ==
    /\ last.op = "run_query"
    /\ last.outcome = "chat_model_unavailable"
    /\ ~InList(model_var, ollama_models)
    /\ mode = "Chat"

\* the cached chat agent was built for model m
BuiltFor(a, m) == a # None /\ a._model = m /\ a.llm = LlmModel(m)

\* C10: the chat agent cache is keyed by the model. Every chat_agent.start call
\* is made on self.chat_agent, built for the model selected at that query; a
\* chat query that reaches start() builds a new agent when none exists or the
\* selected model differs from the cached agent's, and otherwise reuses the
\* cached agent without building.
C10_ChatCacheKeyedByModel ==
    /\ [](mainPc = "chat_start" => (call.agent = chat_agent /\ BuiltFor(chat_agent, model_var)))
    /\ [][(IsDispatchedQuery /\ mainPc' = "chat_start") =>
             IF chat_agent # None /\ chat_agent._model = model_var
             THEN chat_agent' = chat_agent /\ last'.outcome = "chat_cached_start"
             ELSE /\ last'.outcome = "chat_built_start"
                  /\ chat_agent # None => chat_agent'.id # chat_agent.id]_vars

\* the second agent built (after a change of model) has just been reused
C10_Witness ==
    /\ mainPc = "chat_start"
    /\ last.outcome = "chat_cached_start"
    /\ chat_agent.id = 2
    /\ call.agent = chat_agent


\* start() has just returned and its result has been rendered
Answered ==
    /\ last.op \in {"_handle_chat_query", "_handle_rag_query"}
    /\ last.outcome = "answered"

\* start() returned the empty string
EmptyTextResult(result) == IsStr(result) /\ result.text = EmptyStr

\* C11 as stated: in both modes a text result is displayed verbatim, a
\* non-text result as its text representation, and the placeholder
\* 'No response from the model.' whenever the result is None or the empty
\* string.
C11_PlaceholderWhenEmptyOrAbsent ==
    Answered =>
        answer_text = IF last.result = None \/ EmptyTextResult(last.result)
                      THEN NoResponse
                      ELSE IF last.result.type = "str"
                           THEN last.result.text
                           ELSE IntToStr(last.result.int)

\* C11: in both modes a text result is displayed verbatim (the empty string
\* included, which leaves the answer area empty), a non-text result other than
\* None as its text representation, and the placeholder
\* 'No response from the model.' exactly when the result is None.
C11_ResultRendering ==
    Answered =>
        /\ last.result = None => answer_text = NoResponse
        /\ IsStr(last.result) => answer_text = last.result.text
        /\ (last.result # None /\ ~IsStr(last.result)) =>
               answer_text = IntToStr(last.result.int)

\* a RAG query was answered with the empty string and the answer area is empty
C11_Witness ==
    /\ Answered
    /\ last.op = "_handle_rag_query"
    /\ EmptyTextResult(last.result)
    /\ answer_text = EmptyStr


\* start() has just raised and the except clause around it has run
StartRaised ==
    /\ last.op \in {"_handle_chat_query", "_handle_rag_query"}
    /\ last.outcome = "start_raised"

\* C12 as stated: when agent.start raises during a chat or RAG query the
\* exception is caught and the agent reference of that mode (chat_agent or
\* agent) is reset to unset.
C12_StartFailureUnsetsAgent ==
    StartRaised =>
        /\ last.op = "_handle_chat_query" => chat_agent = None
        /\ last.op = "_handle_rag_query" => agent = None

\* C12: when agent.start raises during a chat or RAG query the exception is
\* caught at the call site and reported, the handler returns, and both agent
\* references are left as they were: the agent that raised stays cached.
C12_StartFailureKeepsAgent ==
    [][StartRaised' =>
          /\ mainPc' = "idle"
          /\ UNCHANGED <<chat_agent, agent>>
          /\ call.agent = (IF mainPc = "chat_start" THEN chat_agent' ELSE agent')]_vars

\* the knowledge agent's start() has just raised and the agent is still held
C12_Witness ==
    /\ StartRaised
    /\ last.op = "_handle_rag_query"
    /\ mainPc = "idle"
    /\ agent # None


\* C13: when an upload succeeds, the number stated in the success notice
\* equals the number of files handed to the Agent constructor in that upload,
\* whatever directory selections the main thread makes meanwhile.
C13_NoticeCountsIndexedFiles ==
    \A t \in 1..MaxUploads :
        (t <= Len(threads) /\ threads[t].pc = "notice_ok") =>
            threads[t].count = Len(threads[t].knowledge)


\* the most recently started upload has completed successfully and its
\* flag-clearing last statement has run
LastUploadSucceeded ==
    /\ ~upload_in_progress
    /\ Len(threads) > 0
    /\ threads[Len(threads)].pc = "done"
    /\ ~threads[Len(threads)].raised

\* C14: after an upload has completed successfully and upload_in_progress is
\* cleared, a RAG query with non-empty text (no further upload started since)
\* invokes start on exactly the agent built by that upload, with the stripped
\* query, and a text result of that call is displayed as returned.
C14_QueryUsesUploadedAgent ==
    /\ [][(IsDispatchedQuery /\ mode = "RAG" /\ LastUploadSucceeded) =>
             /\ last'.outcome = "rag_start"
             /\ mainPc' = "rag_start"
             /\ call'.agent = agent
             /\ call'.agent.id = Len(threads)
             /\ call'.query = last'.query]_vars
    /\ [][(mainPc = "rag_start" /\ Answered' /\ IsStr(last'.result)) =>
             /\ last'.op = "_handle_rag_query"
             /\ answer_text' = last'.result.text
             /\ call.agent = agent']_vars

\* the agent built by the second upload has answered a RAG query with text
C14_Witness ==
    /\ LastUploadSucceeded
    /\ Len(threads) = 2
    /\ agent # None
    /\ agent.id = 2
    /\ Answered
    /\ last.op = "_handle_rag_query"
    /\ IsStr(last.result)
    /\ answer_text = <<"4">>


\* the constructor has stored the result of get_ollama_models
Discovered == last.op = "__init__"

\* the models a listing names, line by line, blank lines passed over
RECURSIVE NamesOf(_)
NamesOf(rows) ==
    IF rows = <<>> THEN <<>>
    ELSE (IF Head(rows).name = <<>> THEN <<>> ELSE <<Head(rows).name>>)
         \o NamesOf(Tail(rows))

\* C15 as stated: get_ollama_models returns a non-empty sequence for every
\* outcome of the listing command, a zero exit with no model rows included.
C15_ModelsNeverEmpty ==
    Discovered => ollama_models # <<>>

\* C15: get_ollama_models returns a non-empty sequence when the command
\* cannot be run or fails (the fallback) and when a zero-exit listing has at
\* least one non-blank row; it returns the empty sequence exactly when the
\* command exits with 0 and lists no model (no output, a header only, blank
\* lines only), and the selected model then starts as the empty string.
C15_ModelsEmptyIffNothingListed ==
    Discovered =>
        /\ ollama_models = <<>> <=>
              /\ last.listing.kind = "ok"
              /\ \A i \in 1..Len(last.listing.rows) : last.listing.rows[i].name = <<>>
        /\ ollama_models = <<>> => model_var = EmptyStr

\* a listing of a header and two blank lines has yielded no model
C15_Witness ==
    /\ Discovered
    /\ last.listing.kind = "ok"
    /\ last.listing.header = << <<"N", "A", "M", "E", " ", "I", "D">> >>
    /\ Len(last.listing.rows) = 2
    /\ ollama_models = <<>>

\* C16: from a zero-exit listing made of an optional header line starting
\* with NAME followed by N non-blank rows, blank lines allowed between them,
\* get_ollama_models returns exactly the N names, the first
\* whitespace-delimited token of each row, in row order; when the command
\* exits non-zero or the executable is missing it returns exactly
\* ['mistral:latest'].
C16_ListingParsed ==
    Discovered =>
        IF last.listing.kind = "ok"
        THEN ollama_models = NamesOf(last.listing.rows)
        ELSE ollama_models = <<FallbackModel>>

\* a header, then an indented row, a blank line and another row gave two names
C16_Witness ==
    /\ Discovered
    /\ last.listing.kind = "ok"
    /\ last.listing.header # <<>>
    /\ Len(last.listing.rows) = 3
    /\ last.listing.rows[1].name = <<"m", "2">>
    /\ last.listing.rows[2].name = <<>>
    /\ last.listing.rows[3].name = <<"m", "1">>
    /\ ollama_models = << <<"m", "2">>, <<"m", "1">> >>


\* browse_directory has just stored the scan of a chosen directory
Scanned == last.op = "browse_directory" /\ last.outcome = "selected"

\* the generated tree whose top directory is p
TreeAt(p) == CHOOSE T \in GenTrees : TreePath(T) = p

\* the extension of a file name: what follows its last dot (no extension
\* when the name has no dot), as a set of at most one text
ExtensionOf(name) ==
    LET dots == {i \in 1..Len(name) : name[i] = "."}
    IN  {SubSeq(name, i + 1, Len(name)) : i \in {d \in dots : \A e \in dots : e <= d}}

\* pdf, md, txt
AllowedExtensions == { <<"p", "d", "f">>, <<"m", "d">>, <<"t", "x", "t">> }

\* the files of tree T, at any depth, whose extension is allowed in any case
WantedFiles(T) ==
    UNION { LET held == IF k = 0 THEN T.files ELSE T.chain[k]
            IN  {DirPath([tree |-> T, depth |-> k]) \o <<"/">> \o f :
                   f \in {held[i] : i \in 1..Len(held)} \cap
                         {n \in FileNames : \E x \in ExtensionOf(n) :
                                               Lower(x) \in AllowedExtensions}}
            : k \in 0..Len(T.chain) }

\* C17: scan_supported_files returns exactly the files under the directory,
\* at any depth, whose extension (what follows the last dot of the name)
\* is pdf, md or txt in any letter case: each such file once, no other file,
\* and the empty sequence for a directory without such files, an empty
\* directory included.
C17_ScanExact ==
    Scanned =>
        LET T == TreeAt(selected_directory)
            found == {selected_files[i] : i \in 1..Len(selected_files)}
        IN  /\ found = WantedFiles(T)
            /\ Cardinality(found) = Len(selected_files)
            /\ (T.files = <<>> /\ T.chain = <<>>) => selected_files = <<>>

\* a tree with b.PDF and e.exe on top and d.txt, c.md two levels down was
\* scanned: three files found
C17_Witness ==
    /\ Scanned
    /\ TreeAt(selected_directory).files =
          << <<"b", ".", "P", "D", "F">>, <<"e", ".", "e", "x", "e">> >>
    /\ Len(TreeAt(selected_directory).chain) = 2
    /\ Len(selected_files) = 3


\* C18: on_mode_change is a pure view toggle. It changes only the visibility
\* of the three RAG-only controls (hidden in Chat mode, shown in RAG mode); it
\* leaves agent, chat_agent, upload_in_progress and selected_files, as all
\* other application state, unchanged; it does not touch a running upload
\* thread; and invoked again for the same mode it changes nothing.
C18_ModeChangeIsViewToggle ==
    [][last'.op = "on_mode_change" =>
          /\ visible' = [w \in RagControls |-> mode' = "RAG"]
          /\ UNCHANGED <<agent, chat_agent, upload_in_progress, selected_files>>
          /\ UNCHANGED <<selected_directory, ollama_models, model_var, answer_text,
                         mainPc, call>>
          /\ UNCHANGED threads
          /\ mode' = mode => UNCHANGED visible]_vars

\* the mode was just switched to Chat while an upload thread is running: the
\* controls are hidden, the thread and the flag are as they were
C18_Witness ==
    /\ last.op = "on_mode_change"
    /\ mode = "Chat"
    /\ upload_in_progress
    /\ Running # {}
    /\ agent = None
    /\ \A w \in RagControls : ~visible[w]


\* run_query is inside agent.start
Invoking == mainPc \in {"chat_start", "rag_start"}

\* C19: in either mode, once a submitted query has passed its preconditions
\* and agent.start is invoked, the dispatcher goes back to idle in both
\* outcomes: when start returns and when it raises, run_query ends normally
\* (the exception is handled inside it), and from idle a further query can be
\* submitted.
C19_DispatcherReturnsToIdle ==
    /\ [](mainPc \in {"idle", "chat_start", "rag_start"})
    /\ [][Invoking =>
             /\ (Answered' \/ StartRaised') => (mainPc' = "idle" /\ call' = None)
             /\ mainPc' # mainPc => (Answered' \/ StartRaised')]_vars
    /\ [](Invoking =>
             /\ ENABLED (\E result \in StartResults :
                            ChatQuery_StartReturns(result) \/ RagQuery_StartReturns(result))
             /\ ENABLED (ChatQuery_StartRaises \/ RagQuery_StartRaises))
    /\ [](mainPc = "idle" => \A entry_text \in Queries : ENABLED run_query(entry_text))

\* start() of the chat agent has just raised and run_query has ended: the
\* dispatcher is idle with the chat agent still there for the next query
C19_Witness ==
    /\ StartRaised
    /\ last.op = "_handle_chat_query"
    /\ mainPc = "idle"
    /\ call = None
    /\ chat_agent # None


\* a step of run_query or of the handler it called
QueryStep ==
    last'.op \in {"run_query", "_handle_chat_query", "_handle_rag_query"}

\* C20: a query in either mode, whatever its outcome, never modifies
\* upload_in_progress, the knowledge agent reference or selected_files; the
\* knowledge agent reference is written only by the upload thread; chat_agent
\* is written only where a chat query calls create_chat_agent; and the upload
\* thread never writes chat_agent.
C20_WriterDiscipline ==
    [][/\ QueryStep => UNCHANGED <<upload_in_progress, agent, selected_files>>
       /\ agent' # agent => last'.op = "_upload_document_thread"
       /\ chat_agent' # chat_agent =>
             /\ last'.op = "run_query"
             /\ last'.outcome \in {"chat_built_start", "chat_create_failed"}
       /\ last'.op = "_upload_document_thread" => UNCHANGED chat_agent]_vars

\* a chat query has just built the chat agent while an upload thread is
\* constructing the knowledge agent
C20_Witness ==
    /\ last.op = "run_query"
    /\ last.outcome = "chat_built_start"
    /\ chat_agent # None
    /\ upload_in_progress
    /\ \E t \in Running : threads[t].pc = "constructing"
    /\ agent = None
    /\ selected_files # <<>>


\* the supported files found under the directories offered by the dialog,
\* written out: /d/a.pdf and /d/s/b.PDF under /d, none under /x
FilesUnder(directory) ==
    IF directory = <<"/", "d">>
    THEN << <<"/", "d", "/", "a", ".", "p", "d", "f">>,
            <<"/", "d", "/", "s", "/", "b", ".", "P", "D", "F">> >>
    ELSE <<>>

\* C21: browse_directory replaces the selection wholesale. When a directory is
\* chosen, selected_directory becomes that directory and selected_files
\* becomes exactly the scan result for it, with nothing kept from the
\* previous selection; when the dialog is cancelled, selected_directory and
\* selected_files are both unchanged.
C21_BrowseReplacesSelection ==
    [][last'.op = "browse_directory" =>
          IF last'.directory # EmptyStr
          THEN /\ last'.outcome = "selected"
               /\ selected_directory' = last'.directory
               /\ selected_files' = FilesUnder(last'.directory)
          ELSE /\ last'.outcome = "cancelled"
               /\ UNCHANGED <<selected_directory, selected_files>>]_vars

\* /x, which holds no supported file, was just chosen while an upload of the
\* two files selected before is being indexed: nothing of them is retained
C21_Witness ==
    /\ last.op = "browse_directory"
    /\ last.outcome = "selected"
    /\ selected_directory = <<"/", "x">>
    /\ selected_files = <<>>
    /\ \E t \in Running : Len(threads[t].knowledge) = 2


\* the model name begins with the seven characters of "ollama/"
Prefixed(m) == Len(m) >= 7 /\ \A i \in 1..7 : m[i] = OllamaPrefix[i]

\* identifier is what the factories are to hand to Agent for model m
Normalised(m, identifier) ==
    /\ identifier = (IF Prefixed(m) THEN m ELSE OllamaPrefix \o m)
    /\ Prefixed(identifier)
    /\ ~Prefixed(m) => ~Prefixed(SubSeq(identifier, 8, Len(identifier)))
    /\ LlmModel(identifier) = identifier

\* C22: in both agent factories the identifier handed to the Agent
\* constructor is 'ollama/' + model when the selected model does not start
\* with 'ollama/', and the model unchanged otherwise; it starts with 'ollama/',
\* exactly once for an unprefixed model; and normalising it again returns it
\* unchanged.
C22_ModelIdentifierNormalised ==
    /\ chat_agent # None => Normalised(chat_agent._model, chat_agent.llm)
    /\ agent # None => Normalised(ollama_models[1], agent.llm)
    /\ \A t \in 1..MaxUploads :
          (t <= Len(threads) /\ threads[t].pc \in {"constructing", "notice_ok"}) =>
              Normalised(threads[t].selected_model, threads[t].llm)

\* both factories have built an agent for the model ollama/m1, whose name was
\* handed on unchanged
C22_Witness ==
    /\ ollama_models = << OllamaPrefix \o <<"m", "1">> >>
    /\ chat_agent # None
    /\ chat_agent.llm = OllamaPrefix \o <<"m", "1">>
    /\ agent # None
    /\ agent.llm = OllamaPrefix \o <<"m", "1">>


\* C23: the file list an upload thread passes to the Agent constructor is the
\* same non-empty list that upload_document validated when it accepted the
\* request; a directory selection made on the main thread after the
\* acceptance, one yielding no supported file included, does not change what
\* that upload indexes.
C23_IndexesValidatedFiles ==
    \A t \in 1..MaxUploads :
        (t <= Len(threads) /\ threads[t].pc \in {"constructing", "notice_ok"}) =>
            /\ threads[t].knowledge = threads[t].validated
            /\ threads[t].knowledge # <<>>


\* C24: in every reachable state in which upload_in_progress is false, the
\* knowledge agent reference is either unset or the agent produced by the most
\* recently completed upload, and that upload succeeded; an agent of an older
\* upload is never the active agent once a later upload has completed. (The
\* reference is unset exactly when no upload has completed or the last one
\* failed.)
C24_AgentOfLatestUpload ==
    ~upload_in_progress =>
        /\ \A t \in 1..MaxUploads : t <= Len(threads) => threads[t].pc = "done"
        /\ agent = None \/ (/\ Len(threads) > 0
                            /\ ~threads[Len(threads)].raised
                            /\ agent.id = Len(threads))
        /\ agent = None <=> (Len(threads) = 0 \/ threads[Len(threads)].raised)

\* a first upload succeeded, a second one failed and has completed: the
\* first upload's agent is no longer held
C24_Witness ==
    /\ ~upload_in_progress
    /\ Len(threads) = 2
    /\ ~threads[1].raised
    /\ threads[2].raised
    /\ threads[2].pc = "done"
    /\ agent = None

====
